---- MODULE Spec2Model ----
(***************************************************************************)
(* Part-tree management of Integra: the deferred world commands            *)
(* spawn_part, spawn_part_on_hardpoint, attach_part, detach_part and       *)
(* despawn_part of src/assets/parts.rs, and the grab / release interaction *)
(* of src/main.rs, as a state machine over the entity world.               *)
(*                                                                         *)
(* Every action is one command (or one run of a system together with the   *)
(* commands it queues), applied to the world as a whole.  A command that   *)
(* panics or never returns ends the program: fault becomes "panic" or      *)
(* "hang" and nothing runs afterwards.                                     *)
(***************************************************************************)
EXTENDS Integers, Sequences, FiniteSets, TLC

\* ---------------------------------------------------------------- bounds
\* Number of part entities ever spawned (entity ids are never reused).
MaxParts == 3
\* Number of commands applied in one run.
MaxCmds == 4
\* Number of PartStats values combined in one aggregate.
MaxOperands == 3
\* Number of projectiles in flight at once.
MaxProjectiles == 2
\* Number of collision events apply_projectiles reads in one run.
MaxEvents == 2
\* Number of part commands during a battle.
MaxBattleCmds == 2

\* Option::None for an Option<Entity>.
None == 0
\* An entity that is a hardpoint marker (or a despawned marker), not a part.
MarkerEntity == -1

Ids == 1..MaxParts

\* ---------------------------------------------------------------- catalog
\* PartTable: the part definitions, here reduced to what the part tree
\* reads of them: the number of hardpoints.
PartTable == {"Box Chassis", "Box Head"}
NoDef == "none"

hardpoints(d) ==
    CASE d = "Box Chassis" -> 2
      [] d = "Box Head"    -> 1
      [] d = "Blaster"     -> 0
      [] OTHER             -> 0   \* no PartDef component

\* Largest hardpoint list of the catalog.
MaxHardpoints == hardpoints("Box Chassis")

\* Hardpoint indexes a caller may pass (0-based as in the source); the last
\* one is out of range for every definition but the largest.
HardpointArgs == 0..(MaxHardpoints - 1)

\* The faction a caller inserts on a fresh part: none, PlayerOwned, EnemyOwned.
Factions == {"none", "player", "enemy"}

\* The whole catalog: the command-level runs spawn the definitions of
\* PartTable, enemy assembly draws from all of them.
Catalog == PartTable \cup {"Blaster"}

\* The definitions flagged chassis.
chassis_parts == {"Box Chassis"}

\* ---------------------------------------------------------------- stats
\* PartStats.hp is a u32, kept here as two 16-bit halves <<high, low>>.
U16 == 65536
u32(n) == <<n \div U16, n % U16>>
u32_max == <<U16 - 1, U16 - 1>>

\* self.hp + rhs.hp on u32: the 32-bit sum and whether it overflowed.
u32_add(a, b) ==
    LET lo == a[2] + b[2]
        hi == a[1] + b[1] + (lo \div U16)
    IN  [overflow |-> hi >= U16, value |-> <<hi % U16, lo % U16>>]

\* The f32 fields, over the non-negative integers an f32 holds: every
\* integer up to F32Exact (24 bits of significand) and, above it, the
\* multiples of the unit in the last place.
F32Exact == 16777216

\* Option<f32>: None is <<>>, Some(x) is <<x>>.
NoneF == <<>>
SomeF(x) == <<x>>
unwrap_or_default(o) == IF o = NoneF THEN 0 ELSE o[1]

\* The unit in the last place of the f32 nearest to s.
RECURSIVE ulp(_)
ulp(s) == IF s < F32Exact THEN 1 ELSE 2 * ulp(s \div 2)

\* x + y on f32: the exact sum rounded to the nearest f32, ties to even.
f32_add(x, y) ==
    LET s == x + y
        u == ulp(s)
        q == s \div u
        r == s % u
    IN  IF 2 * r < u THEN q * u
        ELSE IF 2 * r > u THEN (q + 1) * u
        ELSE (IF q % 2 = 0 THEN q ELSE q + 1) * u

\* PartStats::default()
default_stats ==
    [hp |-> u32(0), speed |-> NoneF, acceleration |-> NoneF, force |-> NoneF]

\* A PartStats::add that adds the left field to itself.
add_field_self(a, b) == SomeF(f32_add(unwrap_or_default(a), unwrap_or_default(a)))

\* One f32 field of PartStats::add:
\* Some(self.f.unwrap_or_default() + rhs.f.unwrap_or_default()).
add_field(a, b) == SomeF(f32_add(unwrap_or_default(a), unwrap_or_default(b)))

\* <PartStats as Add>::add, with the hp sum wrapped to 32 bits.
add(self, rhs) ==
    [hp |-> u32_add(self.hp, rhs.hp).value,
     speed |-> add_field(self.speed, rhs.speed),
     acceleration |-> add_field(self.acceleration, rhs.acceleration),
     force |-> add_field(self.force, rhs.force)]

\* Whether self.hp + rhs.hp overflows: a panic in a build with overflow
\* checks (debug), a wrapped sum in a build without (release).
add_overflows(self, rhs) == u32_add(self.hp, rhs.hp).overflow

\* a.saturating_sub(b) on u32.
u32_saturating_sub(a, b) ==
    IF a[1] < b[1] \/ (a[1] = b[1] /\ a[2] < b[2]) THEN u32(0)
    ELSE LET borrow == IF a[2] < b[2] THEN 1 ELSE 0
         IN  <<a[1] - b[1] - borrow, (a[2] + U16 - b[2]) % U16>>

\* The stats of the catalog's definitions.
stats_of(d) ==
    CASE d = "Box Chassis" -> [default_stats EXCEPT !.hp = u32(10)]
      [] d = "Box Head"    -> [default_stats EXCEPT !.hp = u32(5), !.speed = SomeF(10)]
      [] d \in {"Blaster", "Lance"} -> [default_stats EXCEPT !.hp = u32(2)]
      [] OTHER             -> default_stats

VARIABLES
    spawned,            \* number of entity ids handed out so far
    live,               \* the part entities that exist in the world
    def,                \* PartDef component: the definition's name
    PartChildren,       \* PartChildren component: Vec<Option<Entity>>
    PartParent,         \* PartParent component (None: component absent)
    ImpulseJoint,       \* ImpulseJoint component: the joint's other body
    part_tree_root,     \* CustomPhysicsData.part_tree_root
    disable_collision,  \* CustomPhysicsData.disable_collision
    PartTreeRoot,       \* entities carrying the PartTreeRoot component
    PlayerOwned,        \* entities carrying PlayerOwned
    EnemyOwned,         \* entities carrying EnemyOwned
    Grabbed,            \* entities carrying Grabbed
    hand,               \* the GrabbyHand's ImpulseJoint target, or None
    markers,            \* live HardpointMarker entities: <<part, index>>
    Children,           \* parts whose bevy Children component lists markers
    PartStats,          \* PartStats component
    cumulative_stats,   \* PartTreeRoot.cumulative_stats
    fault,              \* "none", or how the program ended: "panic" / "hang"
    cmds,               \* number of commands applied so far
    last,               \* the command applied last
    operands,           \* PartStats values handed to PartStats::add
    folded,             \* the last combination of operands and its result
    colliders,          \* what user_data holds for collider1 and collider2
    solver_flags,       \* what filter_contact_pair returned for them
    generating,         \* generate_enemy: where it is, its part_count and
                        \* enemy, the locals of extend_part_tree
                        \* (remaining_parts, open_points) and the open
                        \* points taken so far, in order
    elapsed,            \* PartInfo.weapon: last_shot.elapsed() in seconds,
                        \* counted up to the weapon's cooldown
    projectiles,        \* the projectile entities: id, Projectile.damage,
                        \* part_tree_root, ProjectileLifetime age in seconds
    app                 \* the application: AppState, the PartTable, the
                        \* PartHandles resource, the load state of the
                        \* handles, the PartsLoadedEvent buffers, PlayerScore,
                        \* and the systems that ran in this frame

vars == <<spawned, live, def, PartChildren, PartParent, ImpulseJoint,
          part_tree_root, disable_collision, PartTreeRoot, PlayerOwned,
          EnemyOwned, Grabbed, hand, markers, Children, PartStats,
          cumulative_stats, fault, cmds, last, operands, folded,
          colliders, solver_flags, generating, elapsed, projectiles, app>>

\* The components of the entities of the world, and whether it runs.
entities == <<spawned, live, def, PartChildren, PartParent, ImpulseJoint,
              part_tree_root, disable_collision, PartTreeRoot, PlayerOwned,
              EnemyOwned, Grabbed, hand, markers, Children, PartStats,
              cumulative_stats, fault>>

\* The variables that are not components of entities of the world or the
\* record of the last command.
aside == <<operands, folded, colliders, solver_flags, generating, elapsed,
           projectiles, app>>

\* The world as one record, so that commands compose.
World ==
    [ spawned |-> spawned, live |-> live, def |-> def,
      PartChildren |-> PartChildren, PartParent |-> PartParent,
      ImpulseJoint |-> ImpulseJoint, part_tree_root |-> part_tree_root,
      disable_collision |-> disable_collision, PartTreeRoot |-> PartTreeRoot,
      PlayerOwned |-> PlayerOwned, EnemyOwned |-> EnemyOwned,
      Grabbed |-> Grabbed, hand |-> hand, markers |-> markers,
      Children |-> Children, PartStats |-> PartStats,
      cumulative_stats |-> cumulative_stats, fault |-> fault ]

\* ---------------------------------------------------------------- helpers
\* The Some(..) entries of a slot list, in slot order.
SomeOf(slots) == SelectSeq(slots, LAMBDA c : c # None)

Range(s) == {s[k] : k \in 1..Len(s)}

\* std::iter::repeat(None).take(n)
EmptySlots(n) == [k \in 1..n |-> None]

\* A world in which the running command panicked / never returned.
Faulted(w, how) == [w EXCEPT !.fault = how]

\* ---------------------------------------------------------------- walks
\* The explicit-stack walks (stack.pop() / stack.push(child) until the stack
\* is empty) are depth-first: the entity popped next is the one pushed last.
\* A walk is written here by what it does at one popped entity and, in pop
\* order, below everything that entity pushed; path is the chain of entities
\* from the start of the walk to the popped one.  An entity met again on its
\* own path means a cycle of child slots: the walk repeats the same pops for
\* ever (the stack only grows), so it never returns.
\* Result: how the walk ended ("ok", "panic", "hang") and what it visited.

\* The walk of detach_part over the subtree of one direct child: fetch the
\* popped entity (a panic when it does not exist), push its bevy Children
\* (hardpoint markers) and then its PartChildren.  A marker popped later has
\* no PartChildren: the unwrap panics.
RECURSIVE detach_walk(_, _, _)
RECURSIVE detach_walk_pushed(_, _, _, _)
detach_walk(w, next, path) ==
    IF next \notin w.live THEN [out |-> "panic", seen |-> {}]
    ELSE IF next \in path THEN [out |-> "hang", seen |-> {}]
    ELSE LET pushed == (IF next \in w.Children THEN <<MarkerEntity>> ELSE <<>>)
                          \o SomeOf(w.PartChildren[next])
             below == detach_walk_pushed(w, pushed, Len(pushed), path \cup {next})
         IN  [out |-> below.out, seen |-> below.seen \cup {next}]

detach_walk_pushed(w, pushed, k, path) ==
    IF k = 0 THEN [out |-> "ok", seen |-> {}]
    ELSE LET top == detach_walk(w, pushed[k], path)
         IN  IF top.out # "ok" THEN top
             ELSE LET rest == detach_walk_pushed(w, pushed, k - 1, path)
                  IN  [out |-> rest.out, seen |-> top.seen \cup rest.seen]

\* The walk of set_collision: push the PartChildren of the popped entity
\* when it has the component, then unwrap its physics data (a panic when
\* the entity does not exist).
RECURSIVE collision_walk(_, _, _)
RECURSIVE collision_walk_pushed(_, _, _, _)
collision_walk(w, next, path) ==
    IF next \notin w.live THEN [out |-> "panic", seen |-> {}]
    ELSE IF next \in path THEN [out |-> "hang", seen |-> {}]
    ELSE LET pushed == SomeOf(w.PartChildren[next])
             below == collision_walk_pushed(w, pushed, Len(pushed), path \cup {next})
         IN  [out |-> below.out, seen |-> below.seen \cup {next}]

collision_walk_pushed(w, pushed, k, path) ==
    IF k = 0 THEN [out |-> "ok", seen |-> {}]
    ELSE LET top == collision_walk(w, pushed[k], path)
         IN  IF top.out # "ok" THEN top
             ELSE LET rest == collision_walk_pushed(w, pushed, k - 1, path)
                  IN  [out |-> rest.out, seen |-> top.seen \cup rest.seen]

\* ---------------------------------------------------------------- spawn
\* PartBundle::new: a part entity with all slots None, no tree root recorded
\* and collision enabled.
PartBundle(w, d) ==
    LET id == w.spawned + 1
    IN  [w EXCEPT !.spawned = id,
                  !.live = @ \cup {id},
                  !.def[id] = d,
                  !.PartChildren[id] = EmptySlots(hardpoints(d)),
                  !.part_tree_root[id] = None,
                  !.disable_collision[id] = FALSE,
                  !.PartStats[id] = stats_of(d)]

\* insert(PlayerOwned) / insert(EnemyOwned) by the caller of a spawn.
insert_faction(w, id, f) ==
    [w EXCEPT !.PlayerOwned = IF f = "player" THEN @ \cup {id} ELSE @,
              !.EnemyOwned  = IF f = "enemy"  THEN @ \cup {id} ELSE @]

\* The faction markers an entity carries ("none" when it carries neither).
factions_of(w, id) ==
    IF id \notin w.PlayerOwned \cup w.EnemyOwned THEN {"none"}
    ELSE {f \in {"player"} : id \in w.PlayerOwned} \cup
         {f \in {"enemy"} : id \in w.EnemyOwned}

\* spawn_part: the bundle with part_tree_root = Some(own id), plus the
\* PartTreeRoot component.
spawn_part(w, d) ==
    LET id == w.spawned + 1
        b  == PartBundle(w, d)
    IN  [b EXCEPT !.part_tree_root[id] = id,
                  !.PartTreeRoot = @ \cup {id},
                  !.cumulative_stats[id] = default_stats]

\* ---------------------------------------------------------------- attach
\* The faction attach_part reads off the parent: 1 player, 2 enemy, 0 none.
ownership(w, parent) ==
    IF parent \in w.PlayerOwned THEN 1
    ELSE IF parent \in w.EnemyOwned THEN 2
    ELSE 0

\* A loop that visits nothing.
attach_visited_none(w, part) == {}

\* The entities the ownership / tree-root loop of attach_part visits: the
\* stack starts as [part] and nothing is ever pushed.
attach_visited(w, part) == {part}

\* An attach_part that accepts any hardpoint index of a live parent.
attach_accepts_any_index(w, parent, hardpoint) == parent \in w.live

\* Whether attach_part gets past its early returns.
attach_accepts(w, parent, hardpoint) ==
    /\ parent \in w.live
    /\ hardpoint < hardpoints(w.def[parent])

\* An attach_part that leaves the PartTreeRoot component on the part.
attached_roots_kept(roots, part) == roots

\* The entities carrying PartTreeRoot after attach_part has attached part:
\* remove::<PartTreeRoot>().
attached_roots(roots, part) == roots \ {part}

\* attach_part(parent, part, hardpoint) applied to the world.
attach_part(w, parent, part, hardpoint) ==
    IF ~attach_accepts(w, parent, hardpoint) THEN w
    ELSE IF part \notin w.live THEN Faulted(w, "panic")
    ELSE
      LET own  == ownership(w, parent)
          root == w.part_tree_root[parent]
          vis  == attach_visited(w, part)
          w1 == [w EXCEPT
                   !.PlayerOwned = IF own = 1 THEN @ \cup vis ELSE @,
                   !.EnemyOwned  = IF own = 2 THEN @ \cup vis ELSE @,
                   !.part_tree_root = [n \in Ids |-> IF n \in vis THEN root ELSE @[n]]]
          w2 == [w1 EXCEPT
                   !.ImpulseJoint[part] = parent,
                   !.PartParent[part] = parent,
                   !.PartTreeRoot = attached_roots(@, part),
                   !.cumulative_stats[part] =
                       IF part \in attached_roots(w.PartTreeRoot, part)
                       THEN @ ELSE default_stats]
      IN  \* children.get_mut(hardpoint): None when the list is too short
          IF hardpoint < Len(w2.PartChildren[parent])
          THEN [w2 EXCEPT !.PartChildren[parent][hardpoint + 1] = part]
          ELSE w2

\* spawn_part_on_hardpoint: spawn the plain bundle, insert the additional
\* component, attach to the entity the commands were opened on.
spawn_part_on_hardpoint(w, parent, d, hardpoint, f) ==
    LET id == w.spawned + 1
    IN  attach_part(insert_faction(PartBundle(w, d), id, f), parent, id, hardpoint)

\* ---------------------------------------------------------------- detach
\* The slot list of the parent with the first slot holding part cleared
\* (position(..).map(|idx| children[idx] = None)).
clear_slot(slots, part) ==
    LET hits == {k \in 1..Len(slots) : slots[k] = part}
    IN  IF hits = {} THEN slots
        ELSE LET idx == CHOOSE k \in hits : \A j \in hits : k <= j
             IN  [slots EXCEPT ![idx] = None]

\* What detach_part leaves in part_tree_root of the detached part itself.
detached_root(part) == None

\* What detach_part leaves in PartParent of the detached part itself: the
\* component is removed from the direct children only.
detached_parent(w, part) == w.PartParent[part]

\* The factions detach_part strips from an entity its walks visit.
stripped == {"player", "enemy"}

\* A detach_part that empties the Vec (children.clear()) instead of
\* writing None into every slot.
detached_slots_dropped(slots) == <<>>

\* A detach_part that forgets the slots: the detached part keeps them.
detached_slots_kept(slots) == slots

\* The slot list detach_part leaves on the detached part.
detached_slots(slots) == EmptySlots(Len(slots))

\* detach_part(part) applied to the world.
detach_part(w, part) ==
    IF part \notin w.live THEN w
    ELSE IF w.PartParent[part] # None /\ w.PartParent[part] \notin w.live
    THEN Faulted(w, "panic")
    ELSE
      LET parent == w.PartParent[part]
          w1 == IF parent = None THEN w
                ELSE [w EXCEPT !.PartChildren[parent] = clear_slot(@, part)]
          kids == SomeOf(w1.PartChildren[part])
          walk == [k \in 1..Len(kids) |->
                     IF kids[k] \notin w1.live
                     THEN [out |-> "panic", seen |-> {}]
                     ELSE detach_walk(w1, kids[k], {})]
          bad == {k \in 1..Len(kids) : walk[k].out # "ok"}
          visited == UNION {walk[k].seen : k \in 1..Len(kids)}
          \* each walk writes Some(id of its direct child); the last write stays
          root_of(n) ==
              LET ks == {k \in 1..Len(kids) : n \in walk[k].seen}
              IN  kids[CHOOSE k \in ks : \A j \in ks : j <= k]
      IN  IF bad # {}
          THEN Faulted(w, walk[CHOOSE k \in bad : \A j \in bad : k <= j].out)
          ELSE
            LET w2 == [w1 EXCEPT
                  !.PartParent = [n \in Ids |->
                      IF n \in Range(kids) THEN None ELSE @[n]],
                  !.ImpulseJoint = [n \in Ids |->
                      IF n \in Range(kids) THEN None ELSE @[n]],
                  !.PlayerOwned = IF "player" \in stripped THEN @ \ visited ELSE @,
                  !.EnemyOwned = IF "enemy" \in stripped THEN @ \ visited ELSE @,
                  !.disable_collision = [n \in Ids |->
                      IF n \in visited THEN FALSE ELSE @[n]],
                  !.part_tree_root = [n \in Ids |->
                      IF n \in visited THEN root_of(n) ELSE @[n]]]
            IN  [w2 EXCEPT
                  !.PartChildren[part] = detached_slots(@),
                  !.ImpulseJoint[part] = None,
                  !.PartParent[part] = detached_parent(w2, part),
                  !.part_tree_root[part] = detached_root(part)]

\* ---------------------------------------------------------------- despawn
\* World::despawn: the entity and all its components go; references other
\* entities hold to it stay as they are.
despawn(w, part) ==
    IF part \notin w.live THEN w
    ELSE [w EXCEPT
            !.live = @ \ {part},
            !.def[part] = NoDef,
            !.PartChildren[part] = <<>>,
            !.PartParent[part] = None,
            !.ImpulseJoint[part] = None,
            !.part_tree_root[part] = None,
            !.disable_collision[part] = FALSE,
            !.PartTreeRoot = @ \ {part},
            !.PartStats[part] = default_stats,
            !.cumulative_stats[part] = default_stats,
            !.PlayerOwned = @ \ {part},
            !.EnemyOwned = @ \ {part},
            !.Grabbed = @ \ {part},
            !.Children = @ \ {part}]

\* despawn_part: detach_part, then despawn the entity.
despawn_part(w, part) ==
    LET w1 == detach_part(w, part)
    IN  IF w1.fault # "none" THEN w1 ELSE despawn(w1, part)

\* ---------------------------------------------------------------- stat aggregation
\* The walk of accumulate_part_stats from one root: fetch the popped
\* entity's stats and child slots (a panic when it does not exist), push the
\* children, add the stats to the root's aggregate.  checks: the build has
\* overflow checks.  Result: how the walk ended and the aggregate so far.
RECURSIVE stats_walk(_, _, _, _, _)
RECURSIVE stats_walk_pushed(_, _, _, _, _, _)
stats_walk(w, next, path, acc, checks) ==
    IF next \notin w.live THEN [out |-> "panic", sum |-> acc]
    ELSE IF next \in path THEN [out |-> "hang", sum |-> acc]
    ELSE IF checks /\ add_overflows(acc, w.PartStats[next])
    THEN [out |-> "panic", sum |-> acc]
    ELSE LET pushed == SomeOf(w.PartChildren[next])
         IN  stats_walk_pushed(w, pushed, Len(pushed), path \cup {next},
                               add(acc, w.PartStats[next]), checks)

stats_walk_pushed(w, pushed, k, path, acc, checks) ==
    IF k = 0 THEN [out |-> "ok", sum |-> acc]
    ELSE LET top == stats_walk(w, pushed[k], path, acc, checks)
         IN  IF top.out # "ok" THEN top
             ELSE stats_walk_pushed(w, pushed, k - 1, path, top.sum, checks)

\* An aggregation pass that does not reset the aggregate first.
reset_stats_kept(old) == old

\* root.cumulative_stats = default()
reset_stats(old) == default_stats

\* accumulate_part_stats: for every entity with PartTreeRoot, reset the
\* aggregate and walk the tree below it.
accumulate_part_stats(w, checks) ==
    LET walk == [r \in w.PartTreeRoot |->
                   stats_walk(w, r, {}, reset_stats(w.cumulative_stats[r]), checks)]
        bad == {r \in w.PartTreeRoot : walk[r].out # "ok"}
    IN  IF bad # {}
        THEN Faulted(w, walk[CHOOSE r \in bad : \A q \in bad : r <= q].out)
        ELSE [w EXCEPT !.cumulative_stats = [n \in Ids |->
                 IF n \in w.PartTreeRoot THEN walk[n].sum ELSE @[n]]]

\* ---------------------------------------------------------------- grab
\* set_collision(root, .., collision): disable_collision = !collision on
\* every entity the walk from root visits.
set_collision(w, root, collision) ==
    LET walk == collision_walk(w, root, {})
    IN  IF walk.out # "ok" THEN Faulted(w, walk.out)
        ELSE [w EXCEPT !.disable_collision = [n \in Ids |->
                 IF n \in walk.seen THEN ~collision ELSE @[n]]]

\* show_markers on GrabModeEvent::Started(grabbed): one marker per empty
\* slot of every PlayerOwned part other than the grabbed one, added to the
\* part as a bevy child.  seen is the world the system's queries read.
show_markers_started(w, seen, grabbed) ==
    LET ms == {m \in Ids \X (0..(MaxHardpoints - 1)) :
                 /\ m[1] \in seen.live
                 /\ m[1] \in seen.PlayerOwned
                 /\ m[1] # grabbed
                 /\ m[2] < Len(seen.PartChildren[m[1]])
                 /\ seen.PartChildren[m[1]][m[2] + 1] = None}
    IN  [w EXCEPT !.markers = ms,
                  !.Children = @ \cup ({m[1] : m \in ms} \cap w.live)]

\* No marker within range of the pointer at release.
NoMarker == <<None, 0>>

\* Whether grab_parts goes on to grab the part its ray hit.
grabbable(w, part) ==
    /\ part \in w.live
    /\ part \notin w.EnemyOwned
    /\ part \notin w.PartTreeRoot

\* grab_parts with the hand free and the ray hitting part: set_collision
\* runs in the system, then the queued commands are applied (hand joint,
\* detach_part, Grabbed).  show_markers reads the Started event either in
\* the same frame, before these commands are applied (early), or after.
grab(w, part, early) ==
    LET w1 == set_collision(w, part, FALSE)
        w2 == detach_part([w1 EXCEPT !.hand = part], part)
        w3 == [w2 EXCEPT !.Grabbed = @ \cup {part}]
    IN  IF w1.fault # "none" THEN w1
        ELSE IF w2.fault # "none" THEN w2
        ELSE show_markers_started(w3, IF early THEN w1 ELSE w3, part)

\* grab_parts with the hand holding its joint: release.  marker is the
\* nearest marker within range, or None when there is none; the Stopped
\* event despawns the markers.
release(w, marker) ==
    IF Cardinality(w.Grabbed) # 1 THEN Faulted(w, "panic")
    ELSE
      LET grabbed == CHOOSE g \in w.Grabbed : TRUE
          root == IF w.part_tree_root[grabbed] # None
                  THEN w.part_tree_root[grabbed] ELSE grabbed
          w1 == set_collision(w, root, TRUE)
          w2 == [w1 EXCEPT !.hand = None, !.Grabbed = @ \ {grabbed}]
          w3 == IF marker = NoMarker THEN w2
                ELSE attach_part(w2, marker[1], grabbed, marker[2])
      IN  IF w1.fault # "none" THEN w1
          ELSE IF w3.fault # "none" THEN w3
          ELSE [w3 EXCEPT !.markers = {}]

\* ---------------------------------------------------------------- contact filter
\* user_data.get(collider): Err for a collider without CustomPhysicsData.
Err == <<>>
Ok(data) == <<data>>

\* The CustomPhysicsData filter_contact_pair uses for a collider.
unwrap_or(got, data) == IF got = Err THEN data ELSE got[1]
no_physics_data == [part_tree_root |-> None, disable_collision |-> FALSE]

\* Option<SolverFlags>: None, Some(SolverFlags::all()); and no call yet.
NoFlags == "None"
AllFlags == "Some(SolverFlags::all())"
Unfiltered == "not called"

\* A filter that looks at the roots only.
filter_contact_pair_by_root(got1, got2) ==
    IF unwrap_or(got1, no_physics_data).part_tree_root
         = unwrap_or(got2, no_physics_data).part_tree_root
    THEN NoFlags ELSE AllFlags

\* CustomPhysicsHooks::filter_contact_pair, given what user_data.get
\* returned for collider1 and collider2.
filter_contact_pair(got1, got2) ==
    LET root1 == unwrap_or(got1, no_physics_data)
        root2 == unwrap_or(got2, no_physics_data)
    IN  IF root1.part_tree_root = root2.part_tree_root THEN NoFlags
        ELSE IF root1.disable_collision \/ root2.disable_collision THEN NoFlags
        ELSE AllFlags

\* user_data.get(e) for a part entity of the world.
user_data(w, e) ==
    IF e \in w.live
    THEN Ok([part_tree_root |-> w.part_tree_root[e],
             disable_collision |-> w.disable_collision[e]])
    ELSE Err

\* ---------------------------------------------------------------- weapons
\* The entity start_game marks Player: the first entity spawned.
player == 1

\* ProjectileLifetime(.., Duration::from_secs(30))
lifetime == 30

\* PartWeapon::Projectile of the definitions with a weapon: spread in
\* degrees, cooldown in seconds and the damage of the projectile.  The
\* Blaster scatters its shots, the Lance shoots straight.
NoWeapon == <<>>
weapon(d) ==
    CASE d = "Blaster" -> <<[spread |-> 10, cooldown |-> 10, damage |-> u32(3)]>>
      [] d = "Lance"   -> <<[spread |-> 0, cooldown |-> 10, damage |-> u32(3)]>>
      [] OTHER         -> NoWeapon

\* The definitions with a weapon.
Weapons == {"Blaster", "Lance"}

\* last_shot.elapsed() of a weapon whose definition was loaded at least a
\* cooldown ago (last_shot is the time the definition was loaded).
ready(d) == IF weapon(d) = NoWeapon THEN 0 ELSE weapon(d)[1].cooldown

\* thread_rng().gen_range(low..high) panics on an empty range.
gen_range_panics(low, high) == ~(low < high)

\* gen_range(-spread / 2.0..spread / 2.0) of the weapon panics (the halves
\* compared doubled).
spread_panics(gun) == gen_range_panics(0 - gun.spread, gun.spread)

\* CustomPhysicsData of a projectile fired for source
\* (WeaponProjectileBundle::new).
projectile_data(source) ==
    [part_tree_root |-> source, disable_collision |-> FALSE]

\* The walk of fire_player_weapons: an entity the query does not match is
\* skipped; the children are pushed; a weapon whose last_shot.elapsed() is
\* at least the cooldown draws its deviation, queues the spawn of a
\* projectile and takes last_shot = now.  acc: elapsed of every part and
\* the damage of the projectiles queued so far.
RECURSIVE fire_walk(_, _, _, _)
RECURSIVE fire_walk_pushed(_, _, _, _, _)
fire_walk(w, next, path, acc) ==
    IF next \notin w.live THEN [out |-> "ok", acc |-> acc]
    ELSE IF next \in path THEN [out |-> "hang", acc |-> acc]
    ELSE LET pushed == SomeOf(w.PartChildren[next])
             gun == weapon(w.def[next])
             shot == gun # NoWeapon /\ acc.elapsed[next] >= gun[1].cooldown
             acc1 == IF shot
                     THEN [elapsed |-> [acc.elapsed EXCEPT ![next] = 0],
                           queued |-> Append(acc.queued, gun[1].damage)]
                     ELSE acc
         IN  IF shot /\ spread_panics(gun[1]) THEN [out |-> "panic", acc |-> acc]
             ELSE fire_walk_pushed(w, pushed, Len(pushed), path \cup {next}, acc1)

fire_walk_pushed(w, pushed, k, path, acc) ==
    IF k = 0 THEN [out |-> "ok", acc |-> acc]
    ELSE LET top == fire_walk(w, pushed[k], path, acc)
         IN  IF top.out # "ok" THEN top
             ELSE fire_walk_pushed(w, pushed, k - 1, path, top.acc)

\* fire_player_weapons with the left button pressed: player.single(), a
\* panic without a Player entity, then the walk.
fire_player_weapons(w, el) ==
    IF player \notin w.live THEN [out |-> "panic", acc |-> [elapsed |-> el, queued |-> <<>>]]
    ELSE fire_walk(w, player, {}, [elapsed |-> el, queued |-> <<>>])

\* The ids of the projectile entities.
projectile_ids(ps) == {p.id : p \in ps}

\* The projectiles after the queued spawns: each takes the least free id.
RECURSIVE spawn_projectiles(_, _, _)
spawn_projectiles(ps, queued, k) ==
    IF k > Len(queued) THEN ps
    ELSE LET id == CHOOSE i \in 1..MaxProjectiles :
                      /\ i \notin projectile_ids(ps)
                      /\ \A j \in 1..(i - 1) : j \in projectile_ids(ps)
         IN  spawn_projectiles(
                 ps \cup {[id |-> id, damage |-> queued[k],
                           part_tree_root |-> player, age |-> 0]},
                 queued, k + 1)

\* stats.hp.saturating_sub(projectile.damage)
damaged(hp, damage) == u32_saturating_sub(hp, damage)

\* The loop of apply_projectiles over the events from position k on:
\* an event whose entities are not a projectile and a part is skipped;
\* else the projectile's despawn is queued, hp is written, and with hp 0
\* despawn_part is queued.  w keeps all entities (the commands are applied
\* after the loop); gone: the projectiles queued for despawn; dead: the
\* parts queued for despawn_part, in order.
RECURSIVE read_events(_, _, _, _, _, _)
read_events(w, ps, events, k, gone, dead) ==
    IF k > Len(events) THEN [w |-> w, gone |-> gone, dead |-> dead]
    ELSE LET proj_id == events[k][1]
             part_id == events[k][2]
         IN  IF proj_id \notin projectile_ids(ps) \/ part_id \notin w.live
             THEN read_events(w, ps, events, k + 1, gone, dead)
             ELSE LET projectile == CHOOSE p \in ps : p.id = proj_id
                      hp == damaged(w.PartStats[part_id].hp, projectile.damage)
                      w1 == [w EXCEPT !.PartStats[part_id].hp = hp]
                  IN  read_events(w1, ps, events, k + 1, gone \cup {proj_id},
                                  IF hp = u32(0) THEN Append(dead, part_id) ELSE dead)

\* The queued despawn_part commands applied in order.
RECURSIVE despawn_parts(_, _, _)
despawn_parts(w, dead, k) ==
    IF k > Len(dead) \/ w.fault # "none" THEN w
    ELSE despawn_parts(despawn_part(w, dead[k]), dead, k + 1)

\* apply_projectiles on these collision events, and its commands applied.
apply_projectiles(w, ps, events) ==
    LET read == read_events(w, ps, events, 1, {}, <<>>)
    IN  [w |-> despawn_parts(read.w, read.dead, 1),
         projectiles |-> {p \in ps : p.id \notin read.gone}]

\* The projectile and the part can be reported as a started collision: the
\* contact filter lets the pair through.
collides(w, ps, event) ==
    /\ event[1] \in projectile_ids(ps)
    /\ event[2] \in w.live
    /\ LET projectile == CHOOSE p \in ps : p.id = event[1]
       IN  filter_contact_pair(Ok(projectile_data(projectile.part_tree_root)),
                               user_data(w, event[2])) = AllFlags

\* A poll that despawns nothing.
old_none(ps) == {}

\* despawn_old_projectiles: the projectiles with elapsed() >= the lifetime.
old(ps) == {p \in ps : p.age >= lifetime}

\* ---------------------------------------------------------------- application
\* The systems of the Update stage that take part in loading and spawning.
Systems ==
    {"track_parts_loaded", "start_game_when_ready", "update_player_score",
     "spawn"}

\* The application after the startup systems: AppState::Loading, the
\* PartTable default (empty), PartHandles holding the handles of the
\* folder, which are still loading; no PartsLoadedEvent, no PlayerScore.
\* event: "none", "fresh" (sent in this frame), "kept" (sent in the
\* previous frame), "dropped"; seen: start_game_when_ready's reader has
\* read it; loads: how often the table was written; starts: how often
\* AppState::Running was entered.
Booting ==
    [state |-> "Loading", table |-> {}, handles |-> TRUE,
     load_state |-> "Loading", event |-> "none", seen |-> FALSE,
     score |-> FALSE, ran |-> {}, loads |-> 0, starts |-> 0]

\* The application once the game runs.
Started ==
    [state |-> "Running", table |-> Catalog, handles |-> FALSE,
     load_state |-> "Loaded", event |-> "dropped", seen |-> TRUE,
     score |-> FALSE, ran |-> {}, loads |-> 1, starts |-> 1]

\* A table that takes the parts in every frame in which they are loaded.
table_written_always(handles, load_state) == load_state = "Loaded"

\* track_parts_loaded writes the table: the PartHandles resource is there
\* and the group of its handles is LoadState::Loaded.
table_written(handles, load_state) == handles /\ load_state = "Loaded"

\* Events::update at the start of a frame: the buffers are swapped and the
\* older one is cleared.
events_update(event) ==
    CASE event = "fresh" -> "kept"
      [] event = "kept"  -> "dropped"
      [] OTHER           -> event

\* ---------------------------------------------------------------- actions
\* The world after a step is w.
Writes(w) ==
    /\ spawned' = w.spawned
    /\ live' = w.live
    /\ def' = w.def
    /\ PartChildren' = w.PartChildren
    /\ PartParent' = w.PartParent
    /\ ImpulseJoint' = w.ImpulseJoint
    /\ part_tree_root' = w.part_tree_root
    /\ disable_collision' = w.disable_collision
    /\ PartTreeRoot' = w.PartTreeRoot
    /\ PlayerOwned' = w.PlayerOwned
    /\ EnemyOwned' = w.EnemyOwned
    /\ Grabbed' = w.Grabbed
    /\ hand' = w.hand
    /\ markers' = w.markers
    /\ Children' = w.Children
    /\ PartStats' = w.PartStats
    /\ cumulative_stats' = w.cumulative_stats
    /\ fault' = w.fault

\* The world after a step is w, and nothing else changes.
Becomes(w) == Writes(w) /\ UNCHANGED aside

\* One command applied: the world becomes w.
Apply(w) == Becomes(w) /\ cmds' = cmds + 1

\* The command applied last: its name and arguments and, as they were when
\* it was applied, the entities in the child slots of its part argument,
\* whether that part sat in a child slot of a live part and whether it
\* carried PartTreeRoot.
Cmd(op, parent, part, hardpoint) ==
    [op |-> op, parent |-> parent, part |-> part, hardpoint |-> hardpoint,
     kids |-> IF part \in live THEN Range(SomeOf(PartChildren[part])) ELSE {},
     held |-> \E q \in live : part \in Range(SomeOf(PartChildren[q])),
     rooted |-> part \in PartTreeRoot,
     events |-> <<>>]

\* The program is running and the run's command budget is not used up.
Running == fault = "none" /\ cmds < MaxCmds

\* Entities a caller can name: every id handed out so far, despawned or not.
Known == 1..spawned

\* The world before any part is spawned.
EmptyWorld ==
    [ spawned |-> 0, live |-> {}, def |-> [n \in Ids |-> NoDef],
      PartChildren |-> [n \in Ids |-> <<>>],
      PartParent |-> [n \in Ids |-> None],
      ImpulseJoint |-> [n \in Ids |-> None],
      part_tree_root |-> [n \in Ids |-> None],
      disable_collision |-> [n \in Ids |-> FALSE],
      PartTreeRoot |-> {}, PlayerOwned |-> {}, EnemyOwned |-> {},
      Grabbed |-> {}, hand |-> None, markers |-> {}, Children |-> {},
      PartStats |-> [n \in Ids |-> default_stats],
      cumulative_stats |-> [n \in Ids |-> default_stats],
      fault |-> "none" ]

\* No command applied yet, no combination of stats made yet.
NoCmd ==
    [op |-> "init", parent |-> None, part |-> None, hardpoint |-> 0,
     kids |-> {}, held |-> FALSE, rooted |-> FALSE, events |-> <<>>]
NoFold == [op |-> "none", checks |-> FALSE, order |-> <<>>,
           out |-> "ok", sum |-> default_stats]

\* generate_enemy is not running.
NotGenerating ==
    [at |-> "idle", part_count |-> 0, enemy |-> None, remaining_parts |-> 0,
     open_points |-> <<>>, taken |-> <<>>]

\* The run starts in world w with the application as in a.
StartsWith(w, a) ==
    /\ spawned = w.spawned
    /\ live = w.live
    /\ def = w.def
    /\ PartChildren = w.PartChildren
    /\ PartParent = w.PartParent
    /\ ImpulseJoint = w.ImpulseJoint
    /\ part_tree_root = w.part_tree_root
    /\ disable_collision = w.disable_collision
    /\ PartTreeRoot = w.PartTreeRoot
    /\ PlayerOwned = w.PlayerOwned
    /\ EnemyOwned = w.EnemyOwned
    /\ Grabbed = w.Grabbed
    /\ hand = w.hand
    /\ markers = w.markers
    /\ Children = w.Children
    /\ PartStats = w.PartStats
    /\ cumulative_stats = w.cumulative_stats
    /\ fault = w.fault
    /\ cmds = 0
    /\ last = NoCmd
    /\ folded = NoFold
    /\ solver_flags = Unfiltered
    /\ generating = NotGenerating
    /\ elapsed = [n \in Ids |-> ready(w.def[n])]
    /\ projectiles = {}
    /\ app = a

\* The run starts in world w, the game running.
StartsIn(w) == StartsWith(w, Started)

\* Nothing handed to the pure functions.
NoInputs == operands = <<>> /\ colliders = <<>>

Init == StartsIn(EmptyWorld) /\ NoInputs

SpawnPart(d, f) ==
    /\ Running
    /\ spawned < MaxParts
    /\ Apply(insert_faction(spawn_part(World, d), spawned + 1, f))
    /\ last' = Cmd("spawn_part", None, spawned + 1, 0)

\* start_game and extend_part_tree pass the faction marker of the tree they
\* build as the additional component.
SpawnPartOnHardpoint(parent, d, hardpoint, f) ==
    /\ Running
    /\ spawned < MaxParts
    /\ parent \in live
    /\ f \in factions_of(World, parent)
    /\ Apply(spawn_part_on_hardpoint(World, parent, d, hardpoint, f))
    /\ last' = Cmd("spawn_part_on_hardpoint", parent, spawned + 1, hardpoint)

AttachPart(parent, part, hardpoint) ==
    /\ Running
    /\ Apply(attach_part(World, parent, part, hardpoint))
    /\ last' = Cmd("attach_part", parent, part, hardpoint)

DetachPart(part) ==
    /\ Running
    /\ Apply(detach_part(World, part))
    /\ last' = Cmd("detach_part", None, part, 0)

DespawnPart(part) ==
    /\ Running
    /\ part \in live
    /\ Apply(despawn_part(World, part))
    /\ last' = Cmd("despawn_part", None, part, 0)

Grab(part, early) ==
    /\ Running
    /\ hand = None
    /\ grabbable(World, part)
    /\ Apply(grab(World, part, early))
    /\ last' = Cmd("grab", None, part, 0)

Release(marker) ==
    /\ Running
    /\ hand # None
    /\ Apply(release(World, marker))
    /\ last' = Cmd("release", marker[1], hand, marker[2])

Next ==
    \/ \E d \in PartTable, f \in Factions : SpawnPart(d, f)
    \/ \E parent \in Known, d \in PartTable, h \in HardpointArgs, f \in Factions :
           SpawnPartOnHardpoint(parent, d, h, f)
    \/ \E parent \in Known, part \in Known, h \in HardpointArgs :
           AttachPart(parent, part, h)
    \/ \E part \in Known : DetachPart(part)
    \/ \E part \in Known : DespawnPart(part)
    \/ \E part \in Known, early \in BOOLEAN : Grab(part, early)
    \/ \E marker \in markers \cup {NoMarker} : Release(marker)

Spec == Init /\ [][Next]_vars

\* ---------------------------------------------------------------- the running game
\* start_game: the player's chassis, PlayerOwned, with the head on its
\* first hardpoint (of the parts start_game hangs on the chassis, the one
\* the reduced catalog has).
start_game(w) ==
    LET chassis == w.spawned + 1
        body == insert_faction(spawn_part(w, "Box Chassis"), chassis, "player")
    IN  spawn_part_on_hardpoint(body, chassis, "Box Head", 0, "player")

StartGame == StartsIn(start_game(EmptyWorld)) /\ NoInputs

\* ---------------------------------------------------------------- loading
\* How often the model lets the table be written and the game be started.
MaxLoads == 2

\* The system has its run in this frame.
Runs(system) == app.ran \cup {system}

\* The asset server finishes the handles of the folder, loaded or failed.
AssetsFinish(outcome) ==
    /\ fault = "none"
    /\ app.load_state = "Loading"
    /\ app' = [app EXCEPT !.load_state = outcome]
    /\ UNCHANGED <<entities, cmds, last, operands, folded, colliders,
                    solver_flags, generating, elapsed, projectiles>>

\* One run of track_parts_loaded, with c.remove_resource applied.
TrackPartsLoaded ==
    /\ fault = "none"
    /\ "track_parts_loaded" \notin app.ran
    /\ app.loads < MaxLoads
    /\ app' = IF table_written(app.handles, app.load_state)
              THEN [app EXCEPT !.table = Catalog,
                               !.loads = @ + 1,
                               !.handles = FALSE,
                               !.event = "fresh",
                               !.seen = FALSE,
                               !.ran = Runs("track_parts_loaded")]
              ELSE [app EXCEPT !.ran = Runs("track_parts_loaded")]
    /\ last' = Cmd("track_parts_loaded", None, None, 0)
    /\ UNCHANGED <<entities, cmds, operands, folded, colliders,
                    solver_flags, generating, elapsed, projectiles>>

\* start_game: it indexes the table by name, a panic when the name is not
\* in it.
start_game_with(w, table) ==
    IF {"Box Chassis", "Box Head"} \subseteq table THEN start_game(w)
    ELSE Faulted(w, "panic")

\* One run of start_game_when_ready (on_update of AppState::Loading): with
\* a PartsLoadedEvent to read, the state is set to Running, and on_enter
\* start_game runs.
StartGameWhenReady ==
    /\ fault = "none"
    /\ app.state = "Loading"
    /\ "start_game_when_ready" \notin app.ran
    /\ app.starts < MaxLoads
    /\ IF app.event \in {"fresh", "kept"} /\ ~app.seen
       THEN /\ app' = [app EXCEPT !.state = "Running",
                                  !.seen = TRUE,
                                  !.starts = @ + 1,
                                  !.ran = Runs("start_game_when_ready")]
            /\ spawned + 2 <= MaxParts
            /\ Writes(start_game_with(World, app.table))
            /\ last' = Cmd("start_game", None, None, 0)
       ELSE /\ app' = [app EXCEPT !.ran = Runs("start_game_when_ready")]
            /\ last' = Cmd("start_game_when_ready", None, None, 0)
            /\ UNCHANGED entities
    /\ UNCHANGED <<cmds, operands, folded, colliders, solver_flags,
                    generating, elapsed, projectiles>>

\* One run of update_player_score: without a Player it returns; else
\* calculate_score unwraps speed, acceleration and force of the player's
\* aggregate (complete: the three are there) and PlayerScore is set.
UpdatePlayerScore(complete) ==
    /\ fault = "none"
    /\ "update_player_score" \notin app.ran
    /\ IF player \notin live \/ player \notin PartTreeRoot
       THEN /\ app' = [app EXCEPT !.ran = Runs("update_player_score")]
            /\ UNCHANGED entities
       ELSE IF complete
       THEN /\ app' = [app EXCEPT !.score = TRUE,
                                  !.ran = Runs("update_player_score")]
            /\ UNCHANGED entities
       ELSE /\ app' = [app EXCEPT !.ran = Runs("update_player_score")]
            /\ Writes(Faulted(World, "panic"))
    /\ last' = Cmd("update_player_score", None, None, 0)
    /\ UNCHANGED <<cmds, operands, folded, colliders, solver_flags,
                    generating, elapsed, projectiles>>

\* generate_enemy up to the chassis: a draw from the chassis definitions
\* of the table panics when there is none.
generate_enemy(w, table, chassis) ==
    IF chassis_parts \cap table = {} THEN Faulted(w, "panic")
    ELSE insert_faction(spawn_part(w, chassis), w.spawned + 1, "enemy")

\* One run of spawn: it returns without a Player or without PlayerScore
\* (the PartTable resource is always there) or while the timer runs
\* (timer_up: it has run out); range is (score / 20.0) as usize, and
\* gen_range(minimum..minimum + range) panics when it is 0; else
\* generate_enemy is called.
Spawn(timer_up, range, chassis) ==
    /\ fault = "none"
    /\ "spawn" \notin app.ran
    /\ app' = [app EXCEPT !.ran = Runs("spawn")]
    /\ IF player \notin live \/ ~app.score \/ ~timer_up
       THEN /\ last' = Cmd("spawn", None, None, 0)
            /\ UNCHANGED entities
       ELSE IF range = 0
       THEN /\ last' = Cmd("spawn", None, None, 0)
            /\ Writes(Faulted(World, "panic"))
       ELSE /\ spawned < MaxParts
            /\ last' = Cmd("generate_enemy", None, spawned + 1, 0)
            /\ Writes(generate_enemy(World, app.table, chassis))
    /\ UNCHANGED <<cmds, operands, folded, colliders, solver_flags,
                    generating, elapsed, projectiles>>

\* The frame ends and the next begins: every system has its run again.
NextFrame ==
    /\ fault = "none"
    /\ app.ran # {}
    /\ app' = [app EXCEPT !.ran = {}, !.event = events_update(@)]
    /\ UNCHANGED <<entities, cmds, last, operands, folded, colliders,
                    solver_flags, generating, elapsed, projectiles>>

LoadInit == StartsWith(EmptyWorld, Booting) /\ NoInputs

LoadNext ==
    \/ \E outcome \in {"Loaded", "Failed"} : AssetsFinish(outcome)
    \/ TrackPartsLoaded
    \/ StartGameWhenReady
    \/ \E complete \in BOOLEAN : UpdatePlayerScore(complete)
    \/ \E timer_up \in BOOLEAN, range \in 0..1, chassis \in chassis_parts :
           Spawn(timer_up, range, chassis)
    \/ NextFrame

LoadSpec == LoadInit /\ [][LoadNext]_vars

\* One run of the accumulate_part_stats system (every tick, PreUpdate).
AccumulatePartStats(checks) ==
    /\ fault = "none"
    /\ Becomes(accumulate_part_stats(World, checks))
    /\ cmds' = cmds
    /\ last' = Cmd("accumulate_part_stats", None, None, 0)

GameNext ==
    \/ Next
    \/ \E checks \in BOOLEAN : AccumulatePartStats(checks)

GameSpec == StartGame /\ [][GameNext]_vars

\* ---------------------------------------------------------------- combining stats
\* PartStats values: hp small and at the top of u32; an f32 field absent,
\* small, and at the end of the range in which every integer is an f32.
HpValues == {u32(1), u32_max}
F32Values == {NoneF, SomeF(1), SomeF(F32Exact)}
StatsValues ==
    [hp : HpValues, speed : F32Values, acceleration : {NoneF},
     force : {NoneF, SomeF(3)}]

\* The orders in which n operands can be visited.
Orders(n) == {o \in [1..n -> 1..n] : \A i, j \in 1..n : o[i] = o[j] => i = j}
InOrder(n) == [i \in 1..n |-> i]

\* cumulative_stats = default(), then cumulative_stats += ops[order[k]] for
\* k = from, from + 1, ..: how it ended and the aggregate.
RECURSIVE fold(_, _, _, _, _)
fold(ops, order, from, acc, checks) ==
    IF from > Len(order) THEN [out |-> "ok", sum |-> acc]
    ELSE IF checks /\ add_overflows(acc, ops[order[from]])
    THEN [out |-> "panic", sum |-> default_stats]
    ELSE fold(ops, order, from + 1, add(acc, ops[order[from]]), checks)

StatsInit ==
    /\ StartsIn(EmptyWorld)
    /\ operands \in [1..MaxOperands -> StatsValues]
    /\ colliders = <<>>

\* The operands are aggregated in one order, as the walk over a tree that
\* visits them in this order does.
FoldStats(order, checks) ==
    /\ folded = NoFold
    /\ folded' = [op |-> "fold", checks |-> checks, order |-> order] @@
                  fold(operands, order, 1, default_stats, checks)
    /\ UNCHANGED <<entities, cmds, last, operands, colliders, solver_flags,
                    generating, elapsed, projectiles, app>>

\* operands[1] + operands[2]
AddStats(checks) ==
    /\ folded = NoFold
    /\ folded' = [op |-> "add", checks |-> checks, order |-> <<1, 2>>] @@
                  fold(operands, <<2>>, 1, operands[1], checks)
    /\ UNCHANGED <<entities, cmds, last, operands, colliders, solver_flags,
                    generating, elapsed, projectiles, app>>

StatsNext ==
    \/ \E order \in Orders(MaxOperands), checks \in BOOLEAN : FoldStats(order, checks)
    \/ \E checks \in BOOLEAN : AddStats(checks)

StatsSpec == StatsInit /\ [][StatsNext]_vars

\* ---------------------------------------------------------------- filtering contacts
\* What user_data can hold for a collider.
PhysicsData ==
    {Err} \cup {Ok(d) : d \in [part_tree_root : Ids \cup {None},
                               disable_collision : BOOLEAN]}

ContactInit ==
    /\ StartsIn(EmptyWorld)
    /\ operands = <<>>
    /\ colliders \in PhysicsData \X PhysicsData

\* The physics engine asks the hook about the pair.
FilterContactPair ==
    /\ solver_flags = Unfiltered
    /\ solver_flags' = filter_contact_pair(colliders[1], colliders[2])
    /\ UNCHANGED <<entities, cmds, last, operands, folded, colliders,
                    generating, elapsed, projectiles, app>>

ContactNext == FilterContactPair

ContactSpec == ContactInit /\ [][ContactNext]_vars

\* ---------------------------------------------------------------- enemy assembly
\* A loop body that forgets the budget.
spend_nothing(remaining_parts) == remaining_parts

\* remaining_parts -= 1
spend(remaining_parts) == remaining_parts - 1

\* The (entity, index) pairs of all hardpoints of definition d on entity.
hardpoints_of(entity, d) == [i \in 1..hardpoints(d) |-> <<entity, i - 1>>]

\* A removal that leaves the Vec as it is.
swap_remove_kept(v, k) == v

\* Vec::swap_remove(k), k counted from 1: the rest of the Vec.
swap_remove(v, k) ==
    LET n == Len(v)
    IN  [i \in 1..(n - 1) |-> IF i = k THEN v[n] ELSE v[i]]

\* A loop that goes on while there are open points, whatever the budget.
extending_while_open(g) == Len(g.open_points) > 0

\* while open_points.len() > 0 && remaining_parts > 0
extending(g) == Len(g.open_points) > 0 /\ g.remaining_parts > 0

\* generate_enemy(.., part_count, ..) up to the call of extend_part_tree:
\* the chassis is spawned, EnemyOwned, and its hardpoints are the open
\* points.
GenerateEnemy(chassis, part_count) ==
    /\ fault = "none"
    /\ generating.at = "idle"
    /\ spawned < MaxParts
    /\ Writes(insert_faction(spawn_part(World, chassis), spawned + 1, "enemy"))
    /\ generating' = [at |-> "extend_part_tree",
                       part_count |-> part_count,
                       enemy |-> spawned + 1,
                       remaining_parts |-> part_count,
                       open_points |-> hardpoints_of(spawned + 1, chassis),
                       taken |-> <<>>]
    /\ UNCHANGED <<cmds, last, operands, folded, colliders, solver_flags,
                    elapsed, projectiles, app>>

\* One iteration of the loop of extend_part_tree: the open point at
\* position k and the definition part are the random draws.
ExtendPartTree(k, part) ==
    /\ fault = "none"
    /\ generating.at = "extend_part_tree"
    /\ extending(generating)
    /\ k \in 1..Len(generating.open_points)
    /\ spawned < MaxParts
    /\ LET point == generating.open_points[k]
           child == spawned + 1
       IN  /\ Writes(spawn_part_on_hardpoint(World, point[1], part, point[2], "enemy"))
           /\ generating' =
                 [generating EXCEPT
                    !.open_points = swap_remove(@, k) \o hardpoints_of(child, part),
                    !.taken = Append(@, point),
                    !.remaining_parts = spend(@)]
    /\ UNCHANGED <<cmds, last, operands, folded, colliders, solver_flags,
                    elapsed, projectiles, app>>

\* The loop condition is false: extend_part_tree and generate_enemy return.
ReturnFromExtend ==
    /\ fault = "none"
    /\ generating.at = "extend_part_tree"
    /\ ~extending(generating)
    /\ generating' = [generating EXCEPT !.at = "returned"]
    /\ UNCHANGED <<entities, cmds, last, operands, folded, colliders,
                    solver_flags, elapsed, projectiles, app>>

AssemblyNext ==
    \/ \E chassis \in chassis_parts, part_count \in 0..MaxParts :
           GenerateEnemy(chassis, part_count)
    \/ \E k \in 1..(MaxParts * MaxHardpoints), part \in Catalog :
           ExtendPartTree(k, part)
    \/ ReturnFromExtend

\* The function runs on: an iteration or the return is taken when it can be.
AssemblySpec ==
    /\ Init
    /\ [][AssemblyNext]_vars
    /\ WF_vars(\E k \in 1..(MaxParts * MaxHardpoints), part \in Catalog :
                  ExtendPartTree(k, part))
    /\ WF_vars(ReturnFromExtend)

\* ---------------------------------------------------------------- battle
\* The steps by which time passes between two runs of the systems, in
\* seconds.
Steps == {10, 30}

\* The least of two numbers.
Min(a, b) == IF a <= b THEN a ELSE b

\* The player's chassis with the weapon gun on its first hardpoint
\* (start_game, with the weapon directly on the chassis) and one enemy of
\* generate_enemy with part_count 0.
start_battle(w, gun) ==
    LET chassis == w.spawned + 1
        w1 == insert_faction(spawn_part(w, "Box Chassis"), chassis, "player")
        w2 == spawn_part_on_hardpoint(w1, chassis, gun, 0, "player")
    IN  insert_faction(spawn_part(w2, "Box Chassis"), w2.spawned + 1, "enemy")

StartBattle(gun) == StartsIn(start_battle(EmptyWorld, gun)) /\ NoInputs

\* Time passes.
Advance(dt) ==
    /\ fault = "none"
    /\ elapsed' = [n \in Ids |-> Min(elapsed[n] + dt, ready(def[n]))]
    /\ projectiles' = {[p EXCEPT !.age = Min(@ + dt, lifetime)] : p \in projectiles}
    /\ last' = Cmd("advance", None, None, 0)
    /\ UNCHANGED <<entities, cmds, operands, folded, colliders, solver_flags,
                    generating, app>>

\* One run of fire_player_weapons, the left button pressed or not.
FirePlayerWeapons(pressed) ==
    LET fired == fire_player_weapons(World, elapsed)
    IN  /\ fault = "none"
        /\ ~pressed =>
              /\ last' = Cmd("fire_player_weapons: not pressed", None, None, 0)
              /\ UNCHANGED <<entities, elapsed, projectiles>>
        /\ (pressed /\ fired.out = "ok") =>
              /\ Cardinality(projectiles) + Len(fired.acc.queued)
                    <= MaxProjectiles
              /\ Writes(World)
              /\ elapsed' = fired.acc.elapsed
              /\ projectiles' =
                    spawn_projectiles(projectiles, fired.acc.queued, 1)
              /\ last' = Cmd("fire_player_weapons", None, None, 0)
        /\ (pressed /\ fired.out # "ok") =>
              /\ Writes(Faulted(World, fired.out))
              /\ elapsed' = fired.acc.elapsed
              /\ projectiles' = projectiles
              /\ last' = Cmd("fire_player_weapons", None, None, 0)
        /\ UNCHANGED <<cmds, operands, folded, colliders, solver_flags,
                        generating, app>>

\* One run of apply_projectiles on the collisions that started.
ApplyProjectiles(events) ==
    /\ fault = "none"
    /\ \A k \in 1..Len(events) : collides(World, projectiles, events[k])
    /\ \A j, k \in 1..Len(events) : events[j] = events[k] => j = k
    /\ LET applied == apply_projectiles(World, projectiles, events)
       IN  /\ Writes(applied.w)
           /\ projectiles' = applied.projectiles
    /\ last' = [Cmd("apply_projectiles", None, None, 0) EXCEPT !.events = events]
    /\ UNCHANGED <<cmds, operands, folded, colliders, solver_flags, generating,
                    elapsed, app>>

\* One run of despawn_old_projectiles; last.kids: the entities despawned.
DespawnOldProjectiles ==
    /\ fault = "none"
    /\ projectiles' = projectiles \ old(projectiles)
    /\ last' = [Cmd("despawn_old_projectiles", None, None, 0)
                  EXCEPT !.kids = projectile_ids(old(projectiles))]
    /\ UNCHANGED <<entities, cmds, operands, folded, colliders, solver_flags,
                    generating, elapsed, app>>

\* The collision events of one run, at most max of them.
EventsUpTo(max) ==
    UNION {[1..n -> (1..MaxProjectiles) \X Ids] : n \in 1..max}

Events == EventsUpTo(MaxEvents)

BattleNext ==
    \/ \E dt \in Steps : Advance(dt)
    \/ \E pressed \in BOOLEAN : FirePlayerWeapons(pressed)
    \/ \E events \in Events : ApplyProjectiles(events)
    \/ DespawnOldProjectiles

\* The systems run every frame and the clock goes on.
BattleInit == \E gun \in Weapons : StartBattle(gun)

BattleSpec ==
    /\ BattleInit
    /\ [][BattleNext]_vars
    /\ WF_vars(\E dt \in Steps : Advance(dt))
    /\ WF_vars(DespawnOldProjectiles)

\* The battle with the grabbing hand.
SkirmishNext ==
    \/ BattleNext
    \/ \E part \in Known, early \in BOOLEAN : Grab(part, early)
    \/ \E marker \in markers \cup {NoMarker} : Release(marker)

SkirmishInit == StartBattle("Blaster")

SkirmishSpec == SkirmishInit /\ [][SkirmishNext]_vars

\* The battle with the part commands of PartCommandsExt.
CombatNext ==
    \/ \E dt \in Steps : Advance(dt)
    \/ \E pressed \in BOOLEAN : FirePlayerWeapons(pressed)
    \/ \E events \in EventsUpTo(1) : ApplyProjectiles(events)
    \/ DespawnOldProjectiles
    \/ \E parent \in Known, part \in Known, h \in HardpointArgs :
           cmds < MaxBattleCmds /\ AttachPart(parent, part, h)
    \/ \E part \in Known : cmds < MaxBattleCmds /\ DetachPart(part)
    \/ \E part \in Known : cmds < MaxBattleCmds /\ DespawnPart(part)

CombatInit == StartBattle("Blaster")

CombatSpec == CombatInit /\ [][CombatNext]_vars

\* ---------------------------------------------------------------- the part tree
\* The entities a part's child slots name.
slot_children(w, p) == Range(SomeOf(w.PartChildren[p]))

\* The parts holding p in one of their child slots.
holders(w, p) == {q \in w.live : p \in slot_children(w, q)}

RECURSIVE reach(_, _, _)
reach(w, S, k) ==
    IF k = 0 THEN S
    ELSE reach(w, S \cup UNION {slot_children(w, q) : q \in S \cap w.live}, k - 1)

\* p and everything reachable from p through child slots.
subtree(w, p) == reach(w, {p}, MaxParts)

\* The proper descendants of p.
descendants(w, p) == reach(w, slot_children(w, p), MaxParts)

\* A tree root: a live part that sits in no child slot.
is_root(w, r) == r \in w.live /\ holders(w, r) = {}

\* The roots of the trees p is connected to.
roots_of(w, p) == {r \in w.live : is_root(w, r) /\ p \in subtree(w, r)}

\* The faction markers of an entity as a pair <<PlayerOwned, EnemyOwned>>.
faction(w, p) == <<p \in w.PlayerOwned, p \in w.EnemyOwned>>

\* A part standing alone as a root: in no slot, no parent reference, no
\* joint, nothing in its own slots.
standalone(w, p) ==
    /\ is_root(w, p)
    /\ w.PartParent[p] = None
    /\ w.ImpulseJoint[p] = None
    /\ slot_children(w, p) = {}

\* The number of child slots, over all live parts, that hold c.
slot_count(w, c) ==
    Cardinality({s \in w.live \X (1..MaxHardpoints) :
                   s[2] <= Len(w.PartChildren[s[1]])
                   /\ w.PartChildren[s[1]][s[2]] = c})

\* The parts form a forest: no part is in more than one child slot and no
\* part is reachable from itself through child slots.
Forest ==
    /\ \A c \in live : slot_count(World, c) <= 1
    /\ \A p \in live : p \notin descendants(World, p)

\* ---------------------------------------------------------------- claims
\* The step just taken applied attach_part(parent, part, hardpoint) to live,
\* distinct entities, got past the early returns and did not fault.
AttachStep ==
    /\ last'.op = "attach_part"
    /\ fault' = "none"
    /\ last'.part \in live
    /\ last'.parent # last'.part
    /\ attach_accepts(World, last'.parent, last'.hardpoint)

\* The step just taken applied detach_part(part) to a live part and did not
\* fault.
DetachStep ==
    /\ last'.op = "detach_part"
    /\ fault' = "none"
    /\ last'.part \in live

\* C1: in every reachable state every live part's part_tree_root is the
\* entity id of the root of the tree it is connected to (a root's own id
\* for the root); after an attach this holds for every node of the attached
\* subtree.  Stated for the states in which attach_part has just put a part
\* into a slot, the parts form a forest and the root carries its own id.
C1_TreeRootIsRootOfTree ==
    ( /\ last.op = "attach_part"
      /\ fault = "none"
      /\ last.part \in live
      /\ last.parent \in live
      /\ last.hardpoint < Len(PartChildren[last.parent])
      /\ PartChildren[last.parent][last.hardpoint + 1] = last.part
      /\ Forest )
        => \A n \in subtree(World, last.part) \cap live :
             \A r \in roots_of(World, n) :
                 part_tree_root[r] = r => part_tree_root[n] = r

\* C2: attach_part of a root-standing child that has descendants sets the
\* part_tree_root of the child and of every descendant to the parent's
\* part_tree_root and gives each of them the parent's faction marker.
C2_AttachReachesDescendants ==
    [][ ( /\ AttachStep
          /\ holders(World, last'.part) = {}
          /\ descendants(World, last'.part) # {}
          /\ last'.parent \notin subtree(World, last'.part) )
        => \A n \in subtree(World, last'.part) :
             /\ part_tree_root'[n] = part_tree_root[last'.parent]
             /\ ownership(World, last'.parent) = 1 => n \in PlayerOwned'
             /\ ownership(World, last'.parent) = 2 => n \in EnemyOwned' ]_vars

\* C3: attach_part onto a slot that already holds a part changes nothing:
\* the slot keeps its occupant and no parent reference, tree root, faction
\* marker, joint or root aggregate changes.
C3_AttachOccupiedSlotIsNoOp ==
    [][ ( /\ AttachStep
          /\ PartChildren[last'.parent][last'.hardpoint + 1]
                 \notin {None, last'.part} )
        => UNCHANGED <<PartChildren, PartParent, part_tree_root, PlayerOwned,
                       EnemyOwned, ImpulseJoint, PartTreeRoot>> ]_vars

\* All parts connected in one tree carry the faction markers of its root.
FactionUniform ==
    \A p \in live : \A r \in roots_of(World, p) :
        faction(World, p) = faction(World, r)

\* C4: in every reachable state all parts of one tree carry the same
\* faction as the tree's root.
C4_FactionUniformInTree == FactionUniform

\* Every occupied child slot names a live part whose parent reference points
\* back.
SlotsPointBack ==
    \A p \in live : \A c \in slot_children(World, p) :
        c \in live /\ PartParent[c] = p

\* C5: in every reachable state a child slot holding Some(c) names a live
\* part c whose parent reference is the slot's owner; stated as: no
\* attach_part of a part to another part breaks it.
C5_SlotChildPointsBack ==
    [][ (SlotsPointBack /\ AttachStep) => SlotsPointBack' ]_vars

\* C6: a part carries a parent reference iff it sits in a child slot of that
\* parent; in particular, once detach_part(p) has been applied to a part
\* that sat under a parent, p carries no parent reference.
C6_DetachedHasNoParent ==
    [][ ( /\ DetachStep
          /\ PartParent[last'.part] # None
          /\ last'.part \in slot_children(World, PartParent[last'.part]) )
        => PartParent'[last'.part] = None ]_vars

\* C7: after any sequence of commands the parts form a forest; stated as:
\* no attach_part of a part under a part outside its own subtree breaks it.
C7_PartsFormForest ==
    [][ (Forest /\ AttachStep /\ last'.parent \notin subtree(World, last'.part))
        => Forest' ]_vars

\* The parts that sit in the slots of the detached part when its subtree
\* loops start: its slots after its own entry in its parent's list is cleared.
detached_children ==
    IF PartParent[last'.part] = last'.part
    THEN Range(SomeOf(clear_slot(PartChildren[last'.part], last'.part)))
    ELSE slot_children(World, last'.part)

C9_AttachDetachRoundTrip ==
    [][ ( /\ last.op = "attach_part"
          /\ fault = "none"
          /\ last.parent \in live \ {last.part}
          /\ last.part \in live
          /\ slot_count(World, last.part) = 1
          /\ last.hardpoint < Len(PartChildren[last.parent])
          /\ PartChildren[last.parent][last.hardpoint + 1] = last.part
          /\ DetachStep
          /\ last'.part = last.part )
        => /\ PartChildren'[last.parent][last.hardpoint + 1] = None
           /\ PartParent'[last.part] = None
           /\ ImpulseJoint'[last.part] = None
           /\ part_tree_root'[last.part] = last.part
           /\ last.part \in PartTreeRoot' ]_vars

\* C10: detach_part(part) of a part sitting under a parent strips the
\* faction markers from part itself and from every part of its subtree.
C10_DetachStripsFaction ==
    [][ ( /\ DetachStep
          /\ PartParent[last'.part] # None
          /\ last'.part \in slot_children(World, PartParent[last'.part]) )
        => \A n \in subtree(World, last'.part) :
               n \notin PlayerOwned' \cup EnemyOwned' ]_vars

\* Every joint links a part to the owner of a slot it sits in, and every
\* part in a slot has one.
JointsMatchSlots ==
    \A p \in live :
        /\ ImpulseJoint[p] # None <=> holders(World, p) # {}
        /\ \A q \in holders(World, p) : ImpulseJoint[p] = q

\* C11: in every reachable state a part carries a joint exactly when it sits
\* in a child slot, and the joint connects it to the owner of that slot; no
\* part that is in no slot keeps a joint to a former parent.
C11_JointIffInSlot == JointsMatchSlots

\* The part-tree components of every entity are as they were.
TreeUnchanged ==
    UNCHANGED <<live, def, PartChildren, PartParent, ImpulseJoint,
                part_tree_root, disable_collision, PartTreeRoot, PlayerOwned,
                EnemyOwned>>

\* C12: attach_part(parent, part, i) with i outside the hardpoint list of a
\* live parent changes no slot, parent reference, part_tree_root, faction
\* marker, joint or PartTreeRoot of any part, and does not fault.
C12_AttachOutOfRangeIsNoOp ==
    [][ ( /\ last'.op = "attach_part"
          /\ last'.parent \in live
          /\ last'.hardpoint >= hardpoints(def[last'.parent]) )
        => TreeUnchanged /\ fault' = "none" ]_vars

\* C12 witness: attach_part of a live part has just been applied to a live
\* parent with an index past the end of its hardpoint list, while a smaller
\* index would have been a slot of that parent.
C12_Witness ==
    /\ last.op = "attach_part"
    /\ last.parent \in live
    /\ last.part \in live \ {last.parent}
    /\ hardpoints(def[last.parent]) > 0
    /\ last.hardpoint >= hardpoints(def[last.parent])
    /\ fault = "none"

\* C13: attach_part whose parent entity or part entity does not exist when
\* the command is applied is a no-op: nothing changes and the program does
\* not fault.
C13_AttachDeadEntityIsNoOp ==
    [][ ( /\ last'.op = "attach_part"
          /\ (last'.parent \notin live \/ last'.part \notin live) )
        => TreeUnchanged /\ fault' = "none" ]_vars

\* C20: in every reachable state no part that sits in a child slot carries
\* PartTreeRoot.
C20_RootAggregateOnlyOnRoots ==
    \A p \in live : holders(World, p) # {} => p \notin PartTreeRoot

\* C20 witness: attach_part has just put a part that carried PartTreeRoot
\* into a slot of another part, which carries PartTreeRoot itself.
C20_Witness ==
    /\ last.op = "attach_part"
    /\ fault = "none"
    /\ last.rooted
    /\ last.parent \in live \ {last.part}
    /\ last.part \in slot_children(World, last.parent)
    /\ last.parent \in PartTreeRoot

\* C14: in every reachable state detach_part, and therefore despawn_part,
\* of a live part completes without a fatal error.  Stated for the states
\* in which the parts form a forest, every slot's child points back and
\* the joints match the slots.
C14_DetachNeverFaults ==
    [][ ( /\ last'.op \in {"detach_part", "despawn_part"}
          /\ last'.part \in live
          /\ Forest
          /\ SlotsPointBack
          /\ JointsMatchSlots )
        => fault' = "none" ]_vars

\* The step just taken applied despawn_part(part) to a live part and did
\* not fault.
DespawnStep ==
    /\ last'.op = "despawn_part"
    /\ fault' = "none"
    /\ last'.part \in live

\* C15: despawn_part(p) removes exactly the entity p: every other live part
\* stays live, no slot of p's former parent holds p any more, and each
\* former direct child of p is the root of its own still-connected subtree:
\* no parent reference, in no slot, its subtree's slots as before and
\* part_tree_root = that child on all of the subtree.  Stated for the states
\* in which no part is reachable from itself through child slots.
C15_DespawnRemovesOnlyPart ==
    [][ (DespawnStep /\ \A n \in live : n \notin descendants(World, n))
        => LET p == last'.part
           IN  /\ live' = live \ {p}
               /\ \A q \in holders(World, p) \ {p} :
                      \A k \in 1..Len(PartChildren'[q]) : PartChildren'[q][k] # p
               /\ \A c \in last'.kids \ {p} :
                      /\ PartParent'[c] = None
                      /\ \A q \in live' : c \notin Range(PartChildren'[q])
                      /\ \A n \in subtree(World, c) \ {p} :
                             /\ PartChildren'[n] = PartChildren[n]
                             /\ part_tree_root'[n] = c ]_vars

\* C16: detach_part is idempotent: a second detach_part(p) right after a
\* first one changes nothing and does not fault.
C16_DetachIdempotent ==
    [][ ( /\ last.op = "detach_part"
          /\ fault = "none"
          /\ last'.op = "detach_part"
          /\ last'.part = last.part )
        => TreeUnchanged /\ fault' = "none" ]_vars

\* The component-wise sum, in plain integers, of the stats of the parts in
\* S, each part counted once; an absent field counts as zero.
RECURSIVE exact_total(_, _)
exact_total(w, S) ==
    IF S = {} THEN [hp |-> 0, speed |-> 0, acceleration |-> 0, force |-> 0]
    ELSE LET n == CHOOSE m \in S : TRUE
             st == w.PartStats[n]
             rest == exact_total(w, S \ {n})
         IN  [hp |-> rest.hp + st.hp[1] * U16 + st.hp[2],
              speed |-> rest.speed + unwrap_or_default(st.speed),
              acceleration |-> rest.acceleration + unwrap_or_default(st.acceleration),
              force |-> rest.force + unwrap_or_default(st.force)]

\* C17: after one aggregation pass the cumulative_stats of every root is
\* the component-wise sum of the stats of exactly the parts reachable from
\* it through child slots, the root included, each counted once.  Stated
\* for the states in which no part is reachable from itself.
C17_AggregateIsSumOfSubtree ==
    [][ ( /\ last'.op = "accumulate_part_stats"
          /\ \A n \in live : n \notin descendants(World, n)
          /\ \A n \in live : slot_children(World, n) \subseteq live )
        => /\ fault' = "none"
           /\ \A r \in PartTreeRoot :
                  LET t == exact_total(World, subtree(World, r))
                  IN  cumulative_stats'[r] =
                        [hp |-> u32(t.hp), speed |-> SomeF(t.speed),
                         acceleration |-> SomeF(t.acceleration),
                         force |-> SomeF(t.force)] ]_vars

\* The exact sum of one f32 field over the operands.
RECURSIVE field_total(_, _)
field_total(vs, k) ==
    IF k = 0 THEN 0 ELSE field_total(vs, k - 1) + unwrap_or_default(vs[k])

\* C18 as stated: visiting the parts in any order produces the same
\* cumulative_stats.
C18_AggregateOrderIndependent ==
    folded.op = "fold"
        => LET ref == fold(operands, InOrder(MaxOperands), 1, default_stats,
                           folded.checks)
           IN  folded.out = ref.out /\ folded.sum = ref.sum

\* C18, amended: the outcome and the hp of the aggregate do not depend on
\* the visiting order (u32 addition, with its overflow outcome), and a float
\* field does not depend on it whenever the exact sum of the field is an
\* integer every f32 partial sum holds exactly (at most F32Exact); then the
\* field is that sum.  f32 addition is commutative but rounds, so above
\* that range two orders can differ.
C18_AggregateOrderIndependentWhenExact ==
    folded.op = "fold"
        => LET ref == fold(operands, InOrder(MaxOperands), 1, default_stats,
                           folded.checks)
               n == Len(operands)
               speeds == [k \in 1..n |-> operands[k].speed]
               accelerations == [k \in 1..n |-> operands[k].acceleration]
               forces == [k \in 1..n |-> operands[k].force]
           IN  /\ folded.out = ref.out
               /\ folded.sum.hp = ref.sum.hp
               /\ (folded.out = "ok" /\ field_total(speeds, n) <= F32Exact)
                    => /\ folded.sum.speed = ref.sum.speed
                       /\ folded.sum.speed = SomeF(field_total(speeds, n))
               /\ (folded.out = "ok" /\ field_total(accelerations, n) <= F32Exact)
                    => /\ folded.sum.acceleration = ref.sum.acceleration
                       /\ folded.sum.acceleration = SomeF(field_total(accelerations, n))
               /\ (folded.out = "ok" /\ field_total(forces, n) <= F32Exact)
                    => /\ folded.sum.force = ref.sum.force
                       /\ folded.sum.force = SomeF(field_total(forces, n))

\* C18 witness: operands with different, present speed and force values
\* have been aggregated in an order other than the listed one, without
\* overflow, the exact sums within the exact range.
C18_Witness ==
    /\ folded.op = "fold"
    /\ folded.order # InOrder(MaxOperands)
    /\ folded.out = "ok"
    /\ \E i, j \in 1..Len(operands) :
           /\ operands[i].speed = SomeF(1) /\ operands[j].speed = NoneF
           /\ operands[i].force # operands[j].force
    /\ folded.sum.speed # SomeF(0)
    /\ folded.sum.force # SomeF(0)
    /\ unwrap_or_default(folded.sum.speed) <= F32Exact

\* The sum of two u32 in halves, the high half not cut to 16 bits.
exact_hp_sum(a, b) ==
    <<a[1] + b[1] + ((a[2] + b[2]) \div U16), (a[2] + b[2]) % U16>>

\* C19: combining two PartStats adds hp and adds speed, acceleration and
\* force with an absent field counted as zero; no field of the result is
\* absent.
C19_AddIsComponentwiseSum ==
    folded.op = "add"
        => LET a == operands[1]
               b == operands[2]
           IN  /\ folded.out = "ok"
               /\ folded.sum.hp = exact_hp_sum(a.hp, b.hp)
               /\ folded.sum.speed =
                      SomeF(f32_add(unwrap_or_default(a.speed), unwrap_or_default(b.speed)))
               /\ folded.sum.acceleration =
                      SomeF(f32_add(unwrap_or_default(a.acceleration),
                                    unwrap_or_default(b.acceleration)))
               /\ folded.sum.force =
                      SomeF(f32_add(unwrap_or_default(a.force), unwrap_or_default(b.force)))

\* The slot list of every part is as long as the hardpoint list of its
\* definition.
SlotsMatchHardpoints ==
    \A p \in live : Len(PartChildren[p]) = hardpoints(def[p])

\* C21: in every reachable state the slot list of every part is as long as
\* the hardpoint list of its definition, and no step changes the
\* definition or the length of the slot list of a part that stays alive
\* (slot k keeps meaning hardpoint k).
C21_SlotListLengthFixed ==
    /\ []SlotsMatchHardpoints
    /\ [][ \A p \in live \cap live' :
              /\ def'[p] = def[p]
              /\ Len(PartChildren'[p]) = Len(PartChildren[p]) ]_vars

\* C21 witness: a part with hardpoints that had parts in its slots has just
\* been detached, and a part sits in a slot of another part.
C21_Witness ==
    /\ last.op = "detach_part"
    /\ last.kids # {}
    /\ fault = "none"
    /\ last.part \in live
    /\ hardpoints(def[last.part]) > 0
    /\ \E q \in live \ {last.part} : slot_children(World, q) # {}

\* The tree_root and collision_disabled a collider counts as having.
tree_root_of(got) == IF got = Err THEN None ELSE got[1].part_tree_root
collision_disabled(got) == got # Err /\ got[1].disable_collision

\* C22: filter_contact_pair returns None exactly when both colliders have
\* the same tree_root or one of them has collision_disabled, and
\* Some(SolverFlags::all()) otherwise, a collider without physics data
\* counting as tree_root None with collision enabled; the two colliders
\* swapped give the same result.
C22_ContactFilter ==
    solver_flags # Unfiltered
        => LET same == tree_root_of(colliders[1]) = tree_root_of(colliders[2])
               off == collision_disabled(colliders[1]) \/ collision_disabled(colliders[2])
           IN  /\ solver_flags = NoFlags <=> (same \/ off)
               /\ solver_flags = AllFlags <=> ~(same \/ off)
               /\ filter_contact_pair(colliders[2], colliders[1]) = solver_flags

\* C22 witness: the filter has answered for a collider without physics data
\* against one with a tree_root and collision disabled.
C22_Witness ==
    /\ solver_flags = NoFlags
    /\ colliders[1] = Err
    /\ tree_root_of(colliders[2]) # None
    /\ collision_disabled(colliders[2])

\* No full collision between two parts connected in one tree.
SameTreeNeverCollides ==
    \A r \in live : is_root(World, r) =>
        \A p, q \in subtree(World, r) :
            filter_contact_pair(user_data(World, p), user_data(World, q)) # AllFlags

\* No full collision between a projectile of the player and a part
\* connected to the player's tree.
OwnProjectileNeverCollides ==
    (player \in live /\ is_root(World, player)) =>
        \A p \in subtree(World, player) :
            filter_contact_pair(Ok(projectile_data(player)), user_data(World, p))
                # AllFlags

\* C23: in every reachable state the contact filter does not return full
\* collision for two parts connected in the same tree, nor for a projectile
\* and a part connected to the tree of the root that fired it.
C23_OwnTreeNeverCollides ==
    SameTreeNeverCollides /\ OwnProjectileNeverCollides

\* Every parent reference names a live part that holds the child in a slot.
ParentsHoldChildren ==
    \A c \in live : PartParent[c] # None =>
        PartParent[c] \in live /\ c \in slot_children(World, PartParent[c])

C28_GrabDisablesSubtree ==
    [][ (last'.op = "grab" /\ fault' = "none")
          => \A q \in subtree(World', last'.part) :
                /\ disable_collision'[q]
                /\ part_tree_root'[q] = last'.part ]_vars

\* C29: the release of a live part that no part holds, the parts a forest,
\* leaves disable_collision false on the released part and its subtree;
\* with a marker in range the part is then in slot index of
\* the marker's part, with that part as parent; without one no part holds
\* it and it has no joint.
C29_ReleaseRestoresAndAttaches ==
    [][ ( /\ last'.op = "release"
          /\ last'.part \in live
          /\ Forest
          /\ holders(World, last'.part) = {}
          /\ fault' = "none" )
          => /\ \A q \in subtree(World', last'.part) : ~disable_collision'[q]
             /\ last'.parent # None =>
                    /\ last'.parent \in live'
                    /\ PartChildren'[last'.parent][last'.hardpoint + 1] = last'.part
                    /\ PartParent'[last'.part] = last'.parent
             /\ last'.parent = None =>
                    /\ holders(World', last'.part) = {}
                    /\ ImpulseJoint'[last'.part] = None ]_vars

\* The model has no entity id left for the next spawn of the loop.
OutOfIds == spawned = MaxParts /\ extending(generating)

\* C30: every iteration of the loop of extend_part_tree takes one from
\* remaining_parts; the loop goes on only while there are open points and
\* budget, and returns only when there are no open points or no budget;
\* and once started, generate_enemy returns.
C30_GenerateEnemyTerminates ==
    /\ [][ (generating.at = "extend_part_tree" /\ generating' # generating)
             => \/ /\ generating'.at = "extend_part_tree"
                   /\ extending(generating)
                   /\ generating'.remaining_parts = generating.remaining_parts - 1
                \/ /\ generating'.at = "returned"
                   /\ (Len(generating.open_points) = 0
                         \/ generating.remaining_parts = 0) ]_vars
    /\ (generating.at = "extend_part_tree")
          ~> (generating.at = "returned" \/ OutOfIds)

\* C30 witness: generate_enemy has returned with budget left because the
\* open points ran out, after two parts were spawned on the chassis.
C30_Witness ==
    /\ generating.at = "returned"
    /\ generating.remaining_parts > 0
    /\ generating.open_points = <<>>
    /\ Cardinality(live) = 3

\* The parts reachable from the player whose weapon has
\* last_shot.elapsed() >= cooldown.
ready_weapons ==
    {p \in subtree(World, player) \cap live :
        /\ weapon(def[p]) # NoWeapon
        /\ elapsed[p] >= weapon(def[p])[1].cooldown}

\* C24: a run of fire_player_weapons with the button held, the player
\* alive, returns having spawned exactly one projectile for each reachable
\* weapon whose elapsed time is at least its cooldown, with that weapon's
\* last_shot reset and every other weapon's last_shot untouched; a weapon
\* fires only when its elapsed time is at least its cooldown; and no other
\* step, a run with the button not held among them, spawns a projectile.
C24_FireOncePerReadyWeapon ==
    [][ /\ (last'.op = "fire_player_weapons" /\ player \in live)
            => /\ fault' = "none"
               /\ projectiles \subseteq projectiles'
               /\ Cardinality(projectiles' \ projectiles)
                    = Cardinality(ready_weapons)
               /\ \A p \in ready_weapons : elapsed'[p] = 0
               /\ \A p \in Ids \ ready_weapons : elapsed'[p] = elapsed[p]
        /\ last'.op # "fire_player_weapons"
            => projectile_ids(projectiles') \subseteq projectile_ids(projectiles)
      ]_vars

\* The number a u32 stands for.
u32_value(x) == x[1] * U16 + x[2]

\* The damage of the projectiles that hit part p in the first k events.
RECURSIVE damage_taken(_, _, _, _)
damage_taken(ps, events, p, k) ==
    IF k = 0 THEN 0
    ELSE damage_taken(ps, events, p, k - 1) +
         (IF events[k][2] = p
          THEN u32_value((CHOOSE q \in ps : q.id = events[k][1]).damage)
          ELSE 0)

\* max(hp - damage, 0)
hp_left(hp, damage) == IF hp >= damage THEN hp - damage ELSE 0

\* C25: after a run of apply_projectiles on collisions between projectiles
\* and parts, every projectile that hit is gone, every part's hp is
\* max(hp - damage taken, 0), and a part is despawned (gone, and in no
\* slot of another part) exactly when it was hit and its hp reached zero.
C25_HitDamagesAndDespawns ==
    [][ last'.op = "apply_projectiles"
          => LET events == last'.events
                 hit == {events[k][2] : k \in 1..Len(events)}
             IN  /\ fault' = "none"
                 /\ \A k \in 1..Len(events) :
                        events[k][1] \notin projectile_ids(projectiles')
                 /\ \A p \in live :
                        LET left == hp_left(u32_value(PartStats[p].hp),
                                            damage_taken(projectiles, events, p,
                                                         Len(events)))
                        IN  /\ p \notin live' <=> (p \in hit /\ left = 0)
                            /\ p \in live' => u32_value(PartStats'[p].hp) = left
                            /\ p \notin live' =>
                                  \A q \in live' : p \notin slot_children(World', q)
      ]_vars

\* C26: a poll of despawn_old_projectiles removes every projectile whose
\* age is at least the lifetime of 30 seconds and no younger one, so no
\* projectile of that age survives a poll; and with the poll run every
\* frame as time passes, every projectile in flight is eventually removed
\* (or the program has stopped).
C26_OldProjectilesDespawned ==
    /\ [][ last'.op = "despawn_old_projectiles"
              => \A p \in projectiles :
                    IF p.age >= lifetime
                    THEN p.id \notin projectile_ids(projectiles')
                    ELSE p \in projectiles' ]_vars
    /\ \A id \in 1..MaxProjectiles :
          (id \in projectile_ids(projectiles))
             ~> (id \notin projectile_ids(projectiles) \/ fault # "none")

\* C26 witness: a poll has just despawned a projectile that reached its
\* lifetime without hitting anything, and left a younger one in flight.
C26_Witness ==
    /\ last.op = "despawn_old_projectiles"
    /\ last.kids # {}
    /\ PartStats[3].hp = stats_of("Box Chassis").hp
    /\ \E p \in projectiles : p.age < lifetime

\* C31: from the call of generate_enemy(position, n) on, the world holds
\* exactly one root, the enemy, of a chassis definition; every other part
\* sits in a slot; the parts attached are n less the budget left, at most
\* n; when the call has returned they are exactly n unless the open points
\* ran out; with n = 0 only the chassis exists.
C31_EnemyIsChassisPlusParts ==
    generating.at # "idle" =>
        LET enemy == generating.enemy
            attached == live \ {enemy}
        IN  /\ enemy \in live
            /\ def[enemy] \in chassis_parts
            /\ {r \in live : is_root(World, r)} = {enemy}
            /\ PartTreeRoot = {enemy}
            /\ attached = descendants(World, enemy)
            /\ Cardinality(attached)
                  = generating.part_count - generating.remaining_parts
            /\ Cardinality(attached) <= generating.part_count
            /\ generating.at = "returned" =>
                  \/ Cardinality(attached) = generating.part_count
                  \/ generating.open_points = <<>>
            /\ generating.part_count = 0 => live = {enemy}

\* C31 witness: generate_enemy(.., 2) has returned with the chassis and
\* exactly two parts attached.
C31_Witness ==
    /\ generating.at = "returned"
    /\ generating.part_count = 2
    /\ Cardinality(descendants(World, generating.enemy)) = 2
    /\ generating.open_points # <<>>

\* C32: the table is written once, by the run of track_parts_loaded that
\* finds everything loaded, and never again; AppState changes once, from
\* Loading to Running, with the table written; and a part is spawned or
\* generate_enemy called only with the table filled and the game running.
C32_CatalogLoadedOnceBeforePlay ==
    /\ [](app.loads <= 1 /\ app.starts <= 1)
    /\ [][ /\ app'.table # app.table
               => /\ app.loads = 0
                  /\ app.table = {}
                  /\ app.load_state = "Loaded"
                  /\ last'.op = "track_parts_loaded"
           /\ app'.state # app.state
               => /\ app.state = "Loading"
                  /\ app'.state = "Running"
                  /\ app.loads = 1
                  /\ app.table # {}
           /\ (spawned' # spawned \/ last'.op = "generate_enemy")
               => /\ app.table # {}
                  /\ app'.state = "Running" ]_vars

\* C32 witness: the game runs, the table was written once, and spawn has
\* called generate_enemy for an enemy beside the player.
C32_Witness ==
    /\ app.state = "Running"
    /\ app.loads = 1
    /\ last.op = "generate_enemy"
    /\ EnemyOwned # {}
    /\ fault = "none"

\* The entities that were despawned.
despawned == (1..spawned) \ live

\* C33: no child slot and no PartParent of a live part names a despawned
\* entity.
C33_NoReferenceToDespawned ==
    \A q \in live :
        /\ PartParent[q] \notin despawned
        /\ slot_children(World, q) \cap despawned = {}

\* C34: at most one part is marked Grabbed, and while the hand carries its
\* joint exactly one live part is marked Grabbed.
C34_HandHoldsOneGrabbed ==
    /\ Cardinality(Grabbed) <= 1
    /\ hand # None => Cardinality(Grabbed \cap live) = 1

\* C35: while the program runs, a live part has disable_collision = true
\* only while it belongs to the subtree of a part marked Grabbed; with no
\* part marked Grabbed no part has it.
C35_CollisionDisabledOnlyWhileGrabbed ==
    fault = "none" =>
        \A p \in live :
            disable_collision[p] =>
                \E g \in Grabbed \cap live : p \in subtree(World, g)

\* C36: a run of apply_projectiles takes hp from no more parts than there
\* are projectiles in its events (each projectile damages at most one
\* part), and a projectile that has hit is gone afterwards, so that no
\* later event of it is read.
C36_ProjectileDamagesOnePart ==
    [][ last'.op = "apply_projectiles"
          => LET events == last'.events
                 hitting == {events[k][1] : k \in 1..Len(events)}
                 hurt == {p \in live :
                            \/ p \notin live'
                            \/ PartStats'[p].hp # PartStats[p].hp}
             IN  /\ Cardinality(hurt) <= Cardinality(hitting)
                 /\ hitting \cap projectile_ids(projectiles') = {} ]_vars

\* C37: with the commands of a generate_enemy call applied, every part of
\* the enemy's tree has part_tree_root = the chassis and is EnemyOwned and
\* not PlayerOwned, only the chassis carries PartTreeRoot, and every other
\* part has a live PartParent that holds it in a slot.
C37_EnemyTreeWellFormed ==
    generating.at # "idle" =>
        LET enemy == generating.enemy
            tree == subtree(World, enemy)
        IN  /\ tree \subseteq live
            /\ \A p \in tree :
                  /\ part_tree_root[p] = enemy
                  /\ p \in EnemyOwned
                  /\ p \notin PlayerOwned
                  /\ p \in PartTreeRoot <=> p = enemy
                  /\ p # enemy =>
                        /\ PartParent[p] \in tree
                        /\ p \in slot_children(World, PartParent[p])
                  /\ p = enemy => PartParent[p] = None

\* C37 witness: generate_enemy has returned a tree of depth two, a part on
\* a part on the chassis.
C37_Witness ==
    /\ generating.at = "returned"
    /\ \E p \in subtree(World, generating.enemy) :
          /\ PartParent[p] # None
          /\ PartParent[p] # generating.enemy

\* The open point the iteration just run has taken.
taken_now == generating'.taken[Len(generating'.taken)]

\* C38: the open points are distinct and none of them was taken before;
\* the open point an iteration of extend_part_tree takes was not taken
\* before, names a live part spawned by this call and an index within its
\* hardpoints and its child slots, and that slot is free; the new part is
\* put in it.
C38_OpenPointsTakenOnce ==
    /\ [](LET open == generating.open_points
          IN  /\ \A j, k \in 1..Len(open) : open[j] = open[k] => j = k
              /\ Range(open) \cap Range(generating.taken) = {})
    /\ [][ Len(generating'.taken) > Len(generating.taken)
            => LET entity == taken_now[1]
                   hardpoint == taken_now[2]
               IN  /\ taken_now \notin Range(generating.taken)
                   /\ entity \in live
                   /\ entity >= generating.enemy
                   /\ hardpoint < hardpoints(def[entity])
                   /\ hardpoint < Len(PartChildren[entity])
                   /\ PartChildren[entity][hardpoint + 1] = None
                   /\ PartChildren'[entity][hardpoint + 1] = spawned' ]_vars

\* C38 witness: two open points were taken, the second on the part the
\* first one brought.
C38_Witness ==
    /\ Len(generating.taken) = 2
    /\ generating.taken[2][1] # generating.enemy
    /\ generating.open_points # <<>>

\* What a part is in its tree: where it hangs, what hangs on it, its root,
\* its joint, its collision flag and its markers of faction and root.
placed(w, p) ==
    <<w.PartParent[p], w.PartChildren[p], w.part_tree_root[p],
      w.ImpulseJoint[p], w.disable_collision[p],
      p \in w.EnemyOwned, p \in w.PartTreeRoot>>

\* The parts of the enemy trees: the EnemyOwned parts and the parts whose
\* part_tree_root is EnemyOwned.
enemy_trees(w) ==
    {p \in w.live :
        \/ p \in w.EnemyOwned
        \/ /\ w.part_tree_root[p] # None
           /\ w.part_tree_root[p] \in w.EnemyOwned}

\* C39: the part a grab detaches is neither EnemyOwned nor a PartTreeRoot;
\* the grab leaves every part of an enemy tree as it was, and every root
\* a root with no parent, its part_tree_root and its collision flag.
C39_GrabSparesEnemiesAndRoots ==
    [][ (last'.op = "grab" /\ fault' = "none")
          => /\ last'.part \notin EnemyOwned \cup PartTreeRoot
             /\ \A p \in enemy_trees(World) :
                    placed(World', p) = placed(World, p)
             /\ \A r \in PartTreeRoot \cap live :
                    /\ r \in PartTreeRoot'
                    /\ PartParent'[r] = PartParent[r]
                    /\ part_tree_root'[r] = part_tree_root[r]
                    /\ disable_collision'[r] = disable_collision[r] ]_vars

====
